---- MODULE Spec2Model ----
(***************************************************************************)
(* A model of WPILogParser, the streaming parser of the WPILOG container   *)
(* format.  The state is the parser object's fields (buffer, reader,       *)
(* cursor, header), the position of the asynchronous byte source, the      *)
(* readToBuffer calls that are suspended at their await, and the position  *)
(* of parseAll / parseHeader / parseRecord.                                *)
(*                                                                         *)
(* A byte is an integer 0..255, a chunk a sequence of bytes, the source a  *)
(* sequence of chunks.  A string is the sequence of its code units.        *)
(* A JavaScript value that may be undefined or null is a record with a     *)
(* flag (def / null) beside its bytes.                                     *)
(*                                                                         *)
(* All code between two awaits runs to completion before any suspended     *)
(* call resumes, so each action is one such synchronous section.           *)
(***************************************************************************)
EXTENDS Integers, Sequences, FiniteSets, TLC

VARIABLES
    stream,     \* the AsyncIterable handed to the constructor: its chunks
    fresh,      \* whether each [Symbol.asyncIterator]() call of the source
                \* returns a new iterator that starts at the first chunk
    pos,        \* how many chunks the source has handed out to next() calls
    buffer,     \* this.buffer
    reader,     \* this.reader (the bytes the DataView ranges over, or null)
    cursor,     \* this.cursor
    header,     \* this.header
    pc,         \* where parseAll / parseHeader stand
    hdr,        \* parseHeader's locals that live across its awaits
    inflight,   \* the readToBuffer calls suspended at `await ...next()`
    result,     \* how the promise returned by parseAll settled
    entries,    \* parseAll's local `entries`
    rec,        \* the locals of the latest parseRecord call
    calls,      \* number of parseRecord calls made
    unhandled   \* rejections of readToBuffer promises nobody awaits

vars == <<stream, fresh, pos, buffer, reader, cursor, header, pc, hdr, inflight,
          result, entries, rec, calls, unhandled>>

(***************************************************************************)
(* Bounds of the model.                                                    *)
(***************************************************************************)
MaxChunk == 3      \* largest uniform chunk size of the source
MaxExtra == 2      \* largest header extra length in the inputs
MaxCalls == 2      \* parseRecord calls per run
MaxData == 2       \* data records in a start -> N data -> finish stream
MaxFill == 14      \* longest readToBuffer call started after the header fill

(***************************************************************************)
(* Arithmetic helpers.                                                     *)
(***************************************************************************)
Min(a, b) == IF a < b THEN a ELSE b

RECURSIVE Flatten(_)
Flatten(chunks) ==
    IF chunks = <<>> THEN <<>> ELSE Head(chunks) \o Flatten(Tail(chunks))

\* Uint8Array.prototype.subarray(start, end): both ends clamped to the array
subarray(bytes, start, end) ==
    SubSeq(bytes, Min(start, Len(bytes)) + 1, Min(end, Len(bytes)))

\* Uint8Array.prototype.slice(start)
slice(bytes, start) == SubSeq(bytes, Min(start, Len(bytes)) + 1, Len(bytes))

\* String.fromCharCode(...bytes): one UTF-16 code unit per argument
fromCharCode(bytes) == [i \in 1..Len(bytes) |-> bytes[i] % 65536]

\* "WPILOG" as code units
MAGIC == <<87, 80, 73, 76, 79, 71>>

IsContinuation(b) == b >= 128 /\ b <= 191

\* TextDecoder("utf-8").decode(bytes), non-fatal: the code points of the text.
\* One- and two-byte sequences are decoded; any other byte becomes U+FFFD
\* (the inputs of this model hold no three- or four-byte sequence and no BOM).
RECURSIVE decode(_)
decode(bytes) ==
    IF bytes = <<>> THEN <<>>
    ELSE LET b == Head(bytes) IN
         IF b < 128 THEN <<b>> \o decode(Tail(bytes))
         ELSE IF b >= 194 /\ b <= 223 /\ Len(bytes) >= 2 /\ IsContinuation(bytes[2])
              THEN <<(b - 192) * 64 + (bytes[2] - 128)>> \o decode(Tail(Tail(bytes)))
         ELSE <<65533>> \o decode(Tail(bytes))

(***************************************************************************)
(* The parser's buffer primitives.                                         *)
(***************************************************************************)
concatUint8Arrays(a, b) == a \o b

EmptyBuffer == [def |-> TRUE, bytes |-> <<>>]

UndefinedBuffer == [def |-> FALSE, bytes |-> <<>>]

NullReader == [null |-> TRUE, bytes |-> <<>>]

ViewOf(bytes) == [null |-> FALSE, bytes |-> bytes]

\* One iteration of readToBuffer's loop after its await: `got` tells whether
\* the iterator result carries a chunk (done = false).  At the end of the
\* source result.value is undefined: concatUint8Arrays throws on b.length when
\* the buffer is non-empty, and otherwise this.buffer becomes undefined and
\* the DataView construction throws.  ok = FALSE is that TypeError.
appendChunk(buf, rd, got, chunk) ==
    IF ~buf.def THEN [ok |-> FALSE, buffer |-> buf, reader |-> rd]
    ELSE IF ~got THEN
        IF Len(buf.bytes) > 0
        THEN [ok |-> FALSE, buffer |-> buf, reader |-> rd]
        ELSE [ok |-> FALSE, buffer |-> UndefinedBuffer, reader |-> rd]
    ELSE LET nb == IF Len(buf.bytes) > 0
                   THEN concatUint8Arrays(buf.bytes, chunk)
                   ELSE chunk
         IN [ok |-> TRUE, buffer |-> [def |-> TRUE, bytes |-> nb],
             reader |-> ViewOf(nb)]

\* readToBuffer(length) run to its end on a source that answers at once:
\* `length` iterations, one chunk pulled per iteration.
RECURSIVE readToBuffer(_, _, _, _, _)
readToBuffer(buf, rd, chunks, p, length) ==
    IF length <= 0 THEN [ok |-> TRUE, buffer |-> buf, reader |-> rd, pos |-> p]
    ELSE LET got == p < Len(chunks)
             step == appendChunk(buf, rd, got, IF got THEN chunks[p + 1] ELSE <<>>)
         IN IF ~step.ok
            THEN [ok |-> FALSE, buffer |-> step.buffer, reader |-> step.reader,
                  pos |-> p]
            ELSE readToBuffer(step.buffer, step.reader, chunks, p + 1, length - 1)

\* sliceBuffer(length): the buffer, cursor and reader it leaves
sliceBuffer(buf, rd, c, length) ==
    IF length <= 0 THEN [buffer |-> buf, reader |-> rd, cursor |-> c]
    ELSE LET nb == IF length >= Len(buf.bytes) THEN <<>>
                   ELSE slice(buf.bytes, length)
         IN [buffer |-> [def |-> TRUE, bytes |-> nb], reader |-> ViewOf(nb),
             cursor |-> 0]

\* readBytes(length): throws a TypeError when this.buffer is undefined
readBytes(buf, c, length) ==
    IF ~buf.def THEN [ok |-> FALSE, err |-> "TypeError", bytes |-> <<>>, cursor |-> c]
    ELSE [ok |-> TRUE, err |-> "", bytes |-> subarray(buf.bytes, c, c + length),
          cursor |-> c + length]

\* DataView get of `width` bytes at the cursor, little-endian.  A null reader
\* is a TypeError, an offset outside the view a RangeError; the cursor moves
\* only after a successful get.
RECURSIVE LittleEndian(_)
LittleEndian(bytes) ==
    IF bytes = <<>> THEN 0 ELSE Head(bytes) + 256 * LittleEndian(Tail(bytes))

readUint(rd, c, width) ==
    IF rd.null THEN [ok |-> FALSE, err |-> "TypeError", val |-> 0, cursor |-> c]
    ELSE IF c + width > Len(rd.bytes)
    THEN [ok |-> FALSE, err |-> "RangeError", val |-> 0, cursor |-> c]
    ELSE [ok |-> TRUE, err |-> "",
          val |-> LittleEndian(SubSeq(rd.bytes, c + 1, c + width)),
          cursor |-> c + width]

readU8(rd, c) == readUint(rd, c, 1)

readU16(rd, c) == readUint(rd, c, 2)

readU32(rd, c) == readUint(rd, c, 4)

\* a | b on non-negative numbers
RECURSIVE BitOr(_, _)
BitOr(a, b) ==
    IF a = 0 THEN b
    ELSE IF b = 0 THEN a
    ELSE (IF a % 2 = 1 \/ b % 2 = 1 THEN 1 ELSE 0) + 2 * BitOr(a \div 2, b \div 2)

\* the three-byte case with its third byte shifted by 8 instead of 16
readVariableLengthShift8(rd, c, numBytes) ==
    IF numBytes = 1 THEN readU8(rd, c)
    ELSE IF numBytes = 2 THEN readU16(rd, c)
    ELSE IF numBytes = 3 THEN
        LET b1 == readU8(rd, c)
            b2 == readU8(rd, b1.cursor)
            b3 == readU8(rd, b2.cursor)
        IN IF ~b1.ok THEN b1
           ELSE IF ~b2.ok THEN b2
           ELSE IF ~b3.ok THEN b3
           ELSE [ok |-> TRUE, err |-> "",
                 val |-> BitOr(b1.val, BitOr(b2.val * 256, b3.val * 256)),
                 cursor |-> b3.cursor]
    ELSE IF numBytes = 4 THEN readU32(rd, c)
    ELSE [ok |-> FALSE, err |-> "InvalidVariableLength", val |-> 0, cursor |-> c]

\* readVariableLength(numBytes): 1, 2, 3 or 4 bytes; any other width throws.
\* The three-byte case is three readU8 calls, so a get that throws leaves the
\* cursor after the bytes already read.
readVariableLength(rd, c, numBytes) ==
    IF numBytes = 1 THEN readU8(rd, c)
    ELSE IF numBytes = 2 THEN readU16(rd, c)
    ELSE IF numBytes = 3 THEN
        LET b1 == readU8(rd, c)
            b2 == readU8(rd, b1.cursor)
            b3 == readU8(rd, b2.cursor)
        IN IF ~b1.ok THEN b1
           ELSE IF ~b2.ok THEN b2
           ELSE IF ~b3.ok THEN b3
           ELSE [ok |-> TRUE, err |-> "",
                 val |-> BitOr(b1.val, BitOr(b2.val * 256, b3.val * 65536)),
                 cursor |-> b3.cursor]
    ELSE IF numBytes = 4 THEN readU32(rd, c)
    ELSE [ok |-> FALSE, err |-> "InvalidVariableLength", val |-> 0, cursor |-> c]

\* A bigint has no width limit.  It is kept as three limbs of 24 bits, least
\* significant limb first, which holds every value of up to nine bytes.
LimbSize == 256 * 256 * 256

BigInt(n) == <<n % LimbSize, n \div LimbSize, 0>>

\* byte << shift, for a byte and a shift that is a multiple of 8
BigShiftLeft(byte, shift) ==
    LET limb == shift \div 24
        scale == IF shift % 24 = 0 THEN 1 ELSE IF shift % 24 = 8 THEN 256 ELSE 65536
    IN [k \in 1..3 |-> IF k = limb + 1 THEN byte * scale ELSE 0]

\* value | other
BigOr(value, other) == [k \in 1..3 |-> BitOr(value[k], other[k])]

\* readVariableLengthBigInt(numBytes): numBytes readU8 calls, least
\* significant byte first, each or-ed into the value at its shift.  A get
\* that throws leaves the cursor after the bytes already read.
RECURSIVE readBigIntLoop(_, _, _, _, _)
readBigIntLoop(rd, c, numBytes, i, value) ==
    IF i >= numBytes THEN [ok |-> TRUE, err |-> "", val |-> value, cursor |-> c]
    ELSE LET byte == readU8(rd, c) IN
         IF ~byte.ok THEN [byte EXCEPT !.val = value]
         ELSE readBigIntLoop(rd, byte.cursor, numBytes, i + 1,
                             BigOr(value, BigShiftLeft(byte.val, 8 * i)))

readVariableLengthBigInt(rd, c, numBytes) ==
    readBigIntLoop(rd, c, numBytes, 0, BigInt(0))

\* major and minor taken from the wrong halves
parseVersionSwapped(bytes) ==
    LET major == bytes % 256
        minor == bytes \div 256
    IN [ok |-> ~(major > 255 \/ minor > 255), major |-> major, minor |-> minor]

\* parseVersion(bytes): major = bytes >> 8, minor = bytes & 0xff
parseVersion(bytes) ==
    LET major == bytes \div 256
        minor == bytes % 256
    IN [ok |-> ~(major > 255 \/ minor > 255), major |-> major, minor |-> minor]

(***************************************************************************)
(* parseHeader.                                                            *)
(***************************************************************************)
HEADER_MIN_SIZE == 6 + 2 + 4

SUPPORTED_VERSION == 256   \* 0x0100

\* a comparison that stops one character short
magicMatchesPrefix(magicBytes) ==
    SubSeq(fromCharCode(magicBytes), 1, 5) = SubSeq(MAGIC, 1, 5)

magicMatches(magicBytes) == fromCharCode(magicBytes) = MAGIC

versionSupported(version) == version = SUPPORTED_VERSION

\* parseHeader from the return of readToBuffer(HEADER_MIN_SIZE) to the
\* readToBuffer for the extra field (or to the end when there is none).
\* status "threw" carries the error; "extra" asks for extraLength more
\* bytes; "done" is the header without extra, the buffer sliced.
headerFixed(buf, rd, c) ==
    LET magicBytes == readBytes(buf, c, 6)
        version == readU16(rd, magicBytes.cursor)
        pv == parseVersion(version.val)
        extraLength == readU32(rd, version.cursor)
        base == [status |-> "threw", err |-> "", major |-> 0, minor |-> 0,
                 found |-> <<>>, version |-> 0, extraLength |-> 0,
                 buffer |-> buf, reader |-> rd, cursor |-> c]
    IN IF ~magicBytes.ok
       THEN [base EXCEPT !.err = magicBytes.err]
       ELSE IF ~magicMatches(magicBytes.bytes)
       THEN [base EXCEPT !.err = "InvalidMagic",
                         !.found = fromCharCode(magicBytes.bytes),
                         !.cursor = magicBytes.cursor]
       ELSE IF ~version.ok
       THEN [base EXCEPT !.err = version.err, !.cursor = version.cursor]
       ELSE IF ~versionSupported(version.val)
       THEN IF ~pv.ok
            THEN [base EXCEPT !.err = "InvalidVersion", !.cursor = version.cursor]
            ELSE [base EXCEPT !.err = "UnsupportedVersion", !.major = pv.major,
                              !.minor = pv.minor, !.cursor = version.cursor]
       ELSE IF ~extraLength.ok
       THEN [base EXCEPT !.err = extraLength.err, !.version = version.val,
                         !.cursor = extraLength.cursor]
       ELSE IF extraLength.val > 0
       THEN [base EXCEPT !.status = "extra", !.version = version.val,
                         !.extraLength = extraLength.val,
                         !.cursor = extraLength.cursor]
       ELSE LET sl == sliceBuffer(buf, rd, extraLength.cursor, extraLength.cursor)
            IN [base EXCEPT !.status = "done", !.version = version.val,
                            !.buffer = sl.buffer, !.reader = sl.reader,
                            !.cursor = sl.cursor]

\* parseHeader after readToBuffer(extraLength): the extra text; no slice
headerExtra(buf, c, extraLength) ==
    LET extraBytes == readBytes(buf, c, extraLength)
    IN [ok |-> extraBytes.ok, err |-> extraBytes.err,
        extra |-> decode(extraBytes.bytes), cursor |-> extraBytes.cursor]

NullHeader == [null |-> TRUE, version |-> 0, extra |-> <<>>]

Header(version, extra) == [null |-> FALSE, version |-> version, extra |-> extra]

(***************************************************************************)
(* How the promise of parseAll settles.                                    *)
(***************************************************************************)
Pending ==
    [kind |-> "pending", error |-> "", major |-> 0, minor |-> 0, found |-> <<>>]

\* parseAll has no return statement: its promise resolves with undefined
ResolvedUndefined ==
    [kind |-> "undefined", error |-> "", major |-> 0, minor |-> 0, found |-> <<>>]

Rejected(err, major, minor, found) ==
    [kind |-> "rejected", error |-> err, major |-> major, minor |-> minor,
     found |-> found]

(***************************************************************************)
(* parseRecord: one synchronous section, since none of its readToBuffer    *)
(* calls is awaited.  `fills` lists the lengths of the readToBuffer calls  *)
(* it started before it returned or threw.                                 *)
(***************************************************************************)
NoRecord ==
    [status |-> "none", err |-> "", fills |-> <<>>, start |-> 0,
     bitField |-> <<>>, entryIdLength |-> 0, payloadSizeLength |-> 0,
     timestampLength |-> 0, idAt |-> 0, sizeAt |-> 0, timestampAt |-> 0,
     entryId |-> 0, payloadSize |-> 0,
     timestamp |-> BigInt(0), payloadAt |-> 0, payloadBytes |-> <<>>,
     control |-> FALSE, record |-> "unset", cursor |-> 0]

\* parseControlRecord has an empty body: whatever the payload, its promise
\* resolves with undefined and no field of the parser changes.
parseControlRecord(payload, entryId, timestamp) == "undefined"

recordSync(buf, rd, c) ==
    LET bitField == readBytes(buf, c, 1)
        \* bitField[0] of an empty view is undefined, and undefined & n is 0
        bits == IF bitField.bytes = <<>> THEN 0 ELSE bitField.bytes[1]
        entryIdLength == bits % 4
        payloadSizeLength == (bits \div 4) % 4
        timestampLength == (bits \div 16) % 8
        headerFill == 1 + entryIdLength + payloadSizeLength + timestampLength
        idAt == bitField.cursor + 1
        entryId == readVariableLength(rd, idAt, entryIdLength)
        payloadSize == readVariableLength(rd, entryId.cursor, payloadSizeLength)
        timestamp == readVariableLengthBigInt(rd, payloadSize.cursor, timestampLength)
        payloadBytes == readBytes(buf, timestamp.cursor, payloadSize.val)
        decoded == [NoRecord EXCEPT !.status = "threw", !.start = c,
                        !.bitField = bitField.bytes,
                        !.entryIdLength = entryIdLength,
                        !.payloadSizeLength = payloadSizeLength,
                        !.timestampLength = timestampLength,
                        !.idAt = idAt,
                        !.fills = <<1, headerFill>>]
    IN IF ~bitField.ok
       THEN [NoRecord EXCEPT !.status = "threw", !.err = bitField.err,
                             !.start = c, !.fills = <<1>>, !.cursor = c]
       ELSE IF ~entryId.ok
       THEN [decoded EXCEPT !.err = entryId.err, !.cursor = entryId.cursor]
       ELSE IF ~payloadSize.ok
       THEN [decoded EXCEPT !.err = payloadSize.err, !.entryId = entryId.val,
                            !.cursor = payloadSize.cursor]
       ELSE IF ~timestamp.ok
       THEN [decoded EXCEPT !.err = timestamp.err, !.entryId = entryId.val,
                            !.payloadSize = payloadSize.val,
                            !.cursor = timestamp.cursor]
       ELSE [decoded EXCEPT !.status = "returned",
                            !.entryId = entryId.val,
                            !.payloadSize = payloadSize.val,
                            !.timestamp = timestamp.val,
                            !.fills = <<1, headerFill, payloadSize.val>>,
                            !.sizeAt = entryId.cursor,
                            !.timestampAt = payloadSize.cursor,
                            !.payloadAt = timestamp.cursor,
                            !.payloadBytes = payloadBytes.bytes,
                            !.control = (entryId.val = 0),
                            !.record =
                                IF entryId.val = 0
                                THEN parseControlRecord(payloadBytes.bytes,
                                         entryId.val, timestamp.val)
                                ELSE "undefined",
                            !.cursor = payloadBytes.cursor]

(***************************************************************************)
(* The inputs: byte streams in the WPILOG wire format, cut into chunks.    *)
(***************************************************************************)
\* n as `width` little-endian bytes
RECURSIVE LE(_, _)
LE(n, width) ==
    IF width = 0 THEN <<>> ELSE <<n % 256>> \o LE(n \div 256, width - 1)

Text(n) == [i \in 1..n |-> 96 + i]      \* "a", "ab", "abc", ...

HeaderBytes(magic, versionBytes, extra) ==
    magic \o versionBytes \o LE(Len(extra), 4) \o extra

\* A record as the format frames it with one-byte fields: the bitfield
\* stores each width minus one.
WireRecord(entryId, timestamp, payload) ==
    <<0, entryId, Len(payload), timestamp>> \o payload

WireString(text) == LE(Len(text), 4) \o text

StartPayload(id, name, type, metadata) ==
    <<0>> \o LE(id, 4) \o WireString(name) \o WireString(type) \o WireString(metadata)

FinishPayload(id) == <<1>> \o LE(id, 4)

SetMetadataPayload(id, metadata) == <<2>> \o LE(id, 4) \o WireString(metadata)

DataPayload(k) == <<200 + k, k>>

DataTimestamp(k) == 10 * k

RECURSIVE DataRecords(_, _)
DataRecords(id, n) ==
    IF n = 0 THEN <<>>
    ELSE DataRecords(id, n - 1) \o WireRecord(id, DataTimestamp(n), DataPayload(n))

\* start(id) -> n data records -> finish(id)
RoundTripBody(id, n) ==
    WireRecord(0, 1, StartPayload(id, Text(1), Text(2), Text(0)))
        \o DataRecords(id, n)
        \o WireRecord(0, 99, FinishPayload(id))

UnknownDataBody == WireRecord(7, 5, DataPayload(1))

SetMetadataBody ==
    WireRecord(0, 1, StartPayload(7, Text(3), Text(1), Text(0)))
        \o WireRecord(0, 2, SetMetadataPayload(7, Text(1)))

\* Bytes laid out the way parseRecord reads them: the bitfield holds the
\* three widths themselves, one byte is skipped, then the fields follow.
RawRecord(idLen, sizeLen, tsLen, id, size, ts, payload) ==
    <<idLen + 4 * sizeLen + 16 * tsLen, 0>>
        \o LE(id, idLen) \o LE(size, sizeLen) \o LE(ts, tsLen) \o payload

RawBodies ==
    { RawRecord(1, 1, 0, 7, 2, 0, <<65, 66>>),
      RawRecord(1, 1, 0, 7, 3, 0, <<65>>),
      RawRecord(1, 1, 1, 0, 1, 9, <<2>>),
      RawRecord(3, 2, 2, 66051, 1, 513, <<9>>),
      RawRecord(1, 0, 0, 7, 0, 0, <<>>),
      RawRecord(1, 1, 1, 0, 1, 9, <<3>>),
      RawRecord(1, 1, 0, 7, 1, 0, <<65>>) \o RawRecord(1, 1, 0, 7, 1, 0, <<66>>) }

Bodies ==
    {<<>>, UnknownDataBody, SetMetadataBody}
        \cup {RoundTripBody(1, n) : n \in 0..MaxData}
        \cup RawBodies

ValidVersion == <<0, 1>>     \* 0x0100, little-endian

BadMagic == <<87, 80, 73, 76, 79, 88>>      \* "WPILOX"

Headers ==
    {HeaderBytes(MAGIC, ValidVersion, Text(n)) : n \in 0..MaxExtra}
        \cup {HeaderBytes(BadMagic, ValidVersion, <<>>),
              HeaderBytes(MAGIC, <<2, 0>>, <<>>),
              HeaderBytes(MAGIC, <<0, 2>>, <<>>),
              HeaderBytes(MAGIC, <<1, 1>>, Text(1))}

\* the whole streams, and the streams that lack their last byte
InputBytes ==
    {h \o b : h \in Headers, b \in Bodies}
        \cup {SubSeq(h \o b, 1, Len(h \o b) - 1) : h \in Headers, b \in Bodies}

RECURSIVE Split(_, _)
Split(bytes, size) ==
    IF bytes = <<>> THEN <<>>
    ELSE IF size = 0 \/ size >= Len(bytes) THEN <<bytes>>
    ELSE <<SubSeq(bytes, 1, size)>> \o Split(SubSeq(bytes, size + 1, Len(bytes)), size)

\* A chunking: `lead` one-byte chunks, then chunks of `size` bytes (size 0:
\* one chunk for all the rest), with an empty chunk put in after the first
\* `empty` chunks (-1: no empty chunk).
Chunkings ==
    [lead : {0, HEADER_MIN_SIZE - 1}, size : 0..MaxChunk,
     empty : {-1, 0, HEADER_MIN_SIZE}]

InsertEmpty(chunks, at) ==
    IF at < 0 \/ at > Len(chunks) THEN chunks
    ELSE SubSeq(chunks, 1, at) \o << <<>> >> \o SubSeq(chunks, at + 1, Len(chunks))

Chunk(bytes, c) ==
    LET n == Min(c.lead, Len(bytes))
    IN InsertEmpty(Split(SubSeq(bytes, 1, n), 1)
                       \o Split(SubSeq(bytes, n + 1, Len(bytes)), c.size),
                   c.empty)

OneByteChunks(bytes) == Split(bytes, 1)

SingleChunk(bytes) == Split(bytes, 0)

Streams == {Chunk(b, c) : b \in InputBytes, c \in Chunkings}

(***************************************************************************)
(* The asynchronous source and the suspended readToBuffer calls.           *)
(***************************************************************************)
\* this.stream[Symbol.asyncIterator]().next(): the index of the chunk the
\* call is answered with (0: the iterator is exhausted and answers done).
\* An iterable that returns itself as its iterator (an async generator
\* object), and a Node Readable, hand out their next chunk; an iterable that
\* makes a new iterator per call hands out its first chunk every time.
requested(p) ==
    IF fresh THEN (IF Len(stream) > 0 THEN 1 ELSE 0)
    ELSE IF p < Len(stream) THEN p + 1 ELSE 0

advanced(p) == IF fresh THEN p ELSE Min(p + 1, Len(stream))

\* readToBuffer(length) up to its first await
Task(length, p, owner) ==
    [length |-> length, i |-> 0, req |-> requested(p), owner |-> owner]

\* the readToBuffer calls of one synchronous section, in call order; a call
\* with length <= 0 never enters its loop and suspends nowhere
RECURSIVE startFills(_, _, _)
startFills(lengths, p, owner) ==
    IF lengths = <<>> THEN [tasks |-> <<>>, pos |-> p]
    ELSE IF Head(lengths) <= 0 THEN startFills(Tail(lengths), p, owner)
    ELSE LET rest == startFills(Tail(lengths), advanced(p), owner)
         IN [tasks |-> <<Task(Head(lengths), p, owner)>> \o rest.tasks,
             pos |-> rest.pos]

Init ==
    /\ stream \in Streams
    /\ fresh \in BOOLEAN
    /\ pos = 0
    /\ buffer = EmptyBuffer
    /\ reader = NullReader
    /\ cursor = 0
    /\ header = NullHeader
    /\ pc = "new"
    /\ hdr = [version |-> 0, extraLength |-> 0, extra |-> <<>>]
    /\ inflight = <<>>
    /\ result = Pending
    /\ entries = <<>>
    /\ rec = NoRecord
    /\ calls = 0
    /\ unhandled = 0

\* parseAll() up to the first await of readToBuffer(HEADER_MIN_SIZE)
parseAll ==
    /\ pc = "new"
    /\ LET f == startFills(<<HEADER_MIN_SIZE>>, pos, "header")
       IN /\ inflight' = inflight \o f.tasks
          /\ pos' = f.pos
    /\ pc' = "header_fill"
    /\ UNCHANGED <<stream, fresh, buffer, reader, cursor, header, hdr, result, entries,
                   rec, calls, unhandled>>

\* The oldest pending next() settles and its readToBuffer call resumes: it
\* appends the chunk and either pulls again or returns.  A call that throws
\* rejects parseHeader (and so parseAll) when it is awaited, and is an
\* unhandled rejection when parseRecord started it.
readToBufferResume ==
    /\ inflight # <<>>
    /\ LET t == Head(inflight)
           got == t.req > 0
           step == appendChunk(buffer, reader, got,
                               IF got THEN stream[t.req] ELSE <<>>)
           more == t.i + 1 < t.length
       IN /\ buffer' = step.buffer
          /\ reader' = step.reader
          /\ IF step.ok /\ more
             THEN /\ inflight' = Append(Tail(inflight),
                                        [t EXCEPT !.i = t.i + 1, !.req = requested(pos)])
                  /\ pos' = advanced(pos)
             ELSE /\ inflight' = Tail(inflight)
                  /\ pos' = pos
          /\ IF t.owner = "record"
             THEN /\ unhandled' = IF step.ok THEN unhandled ELSE unhandled + 1
                  /\ UNCHANGED <<pc, result>>
             ELSE /\ unhandled' = unhandled
                  /\ IF ~step.ok
                     THEN /\ pc' = "rejected"
                          /\ result' = Rejected("TypeError", 0, 0, <<>>)
                     ELSE /\ pc' = IF more THEN pc
                                   ELSE IF t.owner = "header" THEN "header_fixed"
                                   ELSE "header_extra"
                          /\ result' = result
    /\ UNCHANGED <<stream, fresh, cursor, header, hdr, entries, rec, calls>>

\* parseHeader resumes after readToBuffer(HEADER_MIN_SIZE)
parseHeaderFixed ==
    /\ pc = "header_fixed"
    /\ LET h == headerFixed(buffer, reader, cursor)
           f == startFills(<<h.extraLength>>, pos, "extra")
       IN /\ h.extraLength <= MaxFill
          /\ buffer' = h.buffer
          /\ reader' = h.reader
          /\ cursor' = h.cursor
          /\ hdr' = [version |-> h.version, extraLength |-> h.extraLength,
                     extra |-> <<>>]
          /\ IF h.status = "threw"
             THEN /\ pc' = "rejected"
                  /\ result' = Rejected(h.err, h.major, h.minor, h.found)
                  /\ UNCHANGED <<inflight, pos>>
             ELSE IF h.status = "extra"
             THEN /\ pc' = "header_extra_fill"
                  /\ inflight' = inflight \o f.tasks
                  /\ pos' = f.pos
                  /\ result' = result
             ELSE /\ pc' = "header_parsed"
                  /\ UNCHANGED <<inflight, pos, result>>
    /\ UNCHANGED <<stream, fresh, header, entries, rec, calls, unhandled>>

\* parseHeader resumes after readToBuffer(extraLength) and returns
parseHeaderExtra ==
    /\ pc = "header_extra"
    /\ LET e == headerExtra(buffer, cursor, hdr.extraLength)
       IN /\ cursor' = e.cursor
          /\ hdr' = [hdr EXCEPT !.extra = e.extra]
          /\ IF e.ok
             THEN pc' = "header_parsed" /\ result' = result
             ELSE pc' = "rejected" /\ result' = Rejected(e.err, 0, 0, <<>>)
    /\ UNCHANGED <<stream, fresh, pos, buffer, reader, header, inflight, entries, rec,
                   calls, unhandled>>

\* parseAll resumes after `await this.parseHeader()`: it stores the header,
\* makes the empty entries array and falls off its end.
parseAllReturn ==
    /\ pc = "header_parsed"
    /\ header' = Header(hdr.version, hdr.extra)
    /\ entries' = <<>>
    /\ result' = ResolvedUndefined
    /\ pc' = "returned"
    /\ UNCHANGED <<stream, fresh, pos, buffer, reader, cursor, hdr, inflight, rec, calls,
                   unhandled>>

\* One call of parseRecord on the parser whose header is parsed.  parseAll
\* never calls it; it is the per-record step of the parser.
parseRecord ==
    /\ pc = "returned"
    /\ calls < MaxCalls
    /\ LET r == recordSync(buffer, reader, cursor)
           f == startFills(r.fills, pos, "record")
       IN /\ \A k \in 1..Len(r.fills) : r.fills[k] <= MaxFill
          /\ rec' = r
          /\ cursor' = r.cursor
          /\ inflight' = inflight \o f.tasks
          /\ pos' = f.pos
    /\ calls' = calls + 1
    /\ UNCHANGED <<stream, fresh, buffer, reader, header, pc, hdr, result, entries,
                   unhandled>>

Next ==
    \/ parseAll
    \/ readToBufferResume
    \/ parseHeaderFixed
    \/ parseHeaderExtra
    \/ parseAllReturn
    \/ parseRecord

Spec == Init /\ [][Next]_vars

(***************************************************************************)
(* The variable-width readers on their own: one call of readVariableLength *)
(* or of readVariableLengthBigInt on a parser whose buffer holds given     *)
(* bytes, at a given cursor.  The call's width, start and outcome are kept *)
(* in rec (entryIdLength/entryId for the number, timestampLength/timestamp *)
(* for the bigint).                                                        *)
(***************************************************************************)
MaxView == 9       \* most bytes in the buffer of a reader call

\* byte i of a view is either i or 0xff
ViewBytes ==
    UNION {[1..n -> {0, 255}] : n \in 0..MaxView}

ViewByte(choice, i) == IF choice[i] = 0 THEN i ELSE 255

Views == {[i \in 1..Len(v) |-> ViewByte(v, i)] : v \in ViewBytes}

InitDecode ==
    /\ stream = <<>>
    /\ fresh = FALSE
    /\ pos = 0
    /\ \E bytes \in Views :
          /\ buffer = [def |-> TRUE, bytes |-> bytes]
          /\ reader = ViewOf(bytes)
    /\ cursor \in 0..1
    /\ header = NullHeader
    /\ pc = "decode"
    /\ hdr = [version |-> 0, extraLength |-> 0, extra |-> <<>>]
    /\ inflight = <<>>
    /\ result = Pending
    /\ entries = <<>>
    /\ rec = NoRecord
    /\ calls = 0
    /\ unhandled = 0

\* a number of the model is below 2^31: of a four-byte value whose top byte
\* is 0x80 or more only the bigint reader is called
Representable(rd, c, numBytes) ==
    numBytes = 4 /\ c + 4 <= Len(rd.bytes) => rd.bytes[c + 4] < 128

readVariableLengthCall ==
    /\ pc = "decode"
    /\ \E numBytes \in 0..5 :
          LET r == readVariableLength(reader, cursor, numBytes)
          IN /\ Representable(reader, cursor, numBytes)
             /\ rec' = [NoRecord EXCEPT
                           !.status = IF r.ok THEN "returned" ELSE "threw",
                           !.err = r.err, !.start = cursor,
                           !.entryIdLength = numBytes, !.entryId = r.val,
                           !.cursor = r.cursor]
             /\ cursor' = r.cursor
    /\ pc' = "decoded_number"
    /\ UNCHANGED <<stream, fresh, pos, buffer, reader, header, hdr, inflight,
                   result, entries, calls, unhandled>>

readVariableLengthBigIntCall ==
    /\ pc = "decode"
    /\ \E numBytes \in 0..8 :
          LET r == readVariableLengthBigInt(reader, cursor, numBytes)
          IN /\ rec' = [NoRecord EXCEPT
                           !.status = IF r.ok THEN "returned" ELSE "threw",
                           !.err = r.err, !.start = cursor,
                           !.timestampLength = numBytes, !.timestamp = r.val,
                           !.cursor = r.cursor]
             /\ cursor' = r.cursor
    /\ pc' = "decoded_bigint"
    /\ UNCHANGED <<stream, fresh, pos, buffer, reader, header, hdr, inflight,
                   result, entries, calls, unhandled>>

NextDecode ==
    \/ readVariableLengthCall
    \/ readVariableLengthBigIntCall

SpecDecode == InitDecode /\ [][NextDecode]_vars

(***************************************************************************)
(* parseAll run to its end on a source that answers at once: how its       *)
(* promise settles and the header it stores.                               *)
(***************************************************************************)
parseAllRun(chunks) ==
    LET fill == readToBuffer(EmptyBuffer, NullReader, chunks, 0, HEADER_MIN_SIZE)
        h == headerFixed(fill.buffer, fill.reader, 0)
        extraFill == readToBuffer(h.buffer, h.reader, chunks, fill.pos, h.extraLength)
        e == headerExtra(extraFill.buffer, h.cursor, h.extraLength)
    IN IF ~fill.ok
       THEN [result |-> Rejected("TypeError", 0, 0, <<>>), header |-> NullHeader]
       ELSE IF h.status = "threw"
       THEN [result |-> Rejected(h.err, h.major, h.minor, h.found),
             header |-> NullHeader]
       ELSE IF h.status = "done"
       THEN [result |-> ResolvedUndefined, header |-> Header(h.version, <<>>)]
       ELSE IF ~extraFill.ok
       THEN [result |-> Rejected("TypeError", 0, 0, <<>>), header |-> NullHeader]
       ELSE IF ~e.ok
       THEN [result |-> Rejected(e.err, 0, 0, <<>>), header |-> NullHeader]
       ELSE [result |-> ResolvedUndefined, header |-> Header(h.version, e.extra)]

(***************************************************************************)
(* Vocabulary of the properties.                                           *)
(***************************************************************************)
StreamBytes == Flatten(stream)

Settled == result.kind # "pending"

\* parseAll's promise resolved (with whatever value)
Resolved == Settled /\ result.kind # "rejected"

ValidHeader(n) == HeaderBytes(MAGIC, ValidVersion, Text(n))

HasValidMagic == Len(StreamBytes) >= 6 /\ SubSeq(StreamBytes, 1, 6) = MAGIC

WireVersion == SubSeq(StreamBytes, 7, 8)

\* parseHeader went past the version check
PastVersion ==
    \/ pc \in {"header_extra_fill", "header_extra", "header_parsed", "returned"}
    \/ cursor > 8
    \/ hdr.extraLength # 0
    \/ ~header.null

\* the source hands out its chunks in order, and the chunks of the header
\* fill all arrive and hold the version field
HeaderFillDelivers ==
    /\ ~fresh
    /\ Len(stream) >= HEADER_MIN_SIZE
    /\ Len(Flatten(SubSeq(stream, 1, HEADER_MIN_SIZE))) >= 8

\* the entry a start record declares, with the records it should hold
ExpectedEntry(id, name, type, metadata, records) ==
    [id |-> id, name |-> name, type |-> type, metadata |-> metadata,
     records |-> records]

ExpectedData(id, n) ==
    [k \in 1..n |-> [entryId |-> id, timestamp |-> BigInt(DataTimestamp(k)),
                     rawPayload |-> DataPayload(k)]]

WellFormedBodies ==
    {<<>>, SetMetadataBody} \cup {RoundTripBody(1, n) : n \in 0..MaxData}

WellFormed ==
    \E n \in 0..MaxExtra, b \in WellFormedBodies : StreamBytes = ValidHeader(n) \o b

(***************************************************************************)
(* C1: what parseAll resolves with on a stream that holds a valid header,  *)
(* start(e), N data records for e and finish(e) is a WPILog whose single   *)
(* entry has the encoded name, type and metadata and exactly the N data    *)
(* records, with their payloads and timestamps, in stream order.           *)
(***************************************************************************)
C1_RoundTrip ==
    \A n \in 0..MaxData :
        (Resolved /\ StreamBytes = ValidHeader(0) \o RoundTripBody(1, n))
            => /\ result.kind = "WPILog"
               /\ entries = <<ExpectedEntry(1, Text(1), Text(2), Text(0),
                                            ExpectedData(1, n))>>

(***************************************************************************)
(* C2: the way parseAll settles and the header it stores depend only on    *)
(* the concatenated bytes: they are what the same bytes give when they     *)
(* come one byte per chunk, and what they give when they come as a single  *)
(* chunk (on a source that hands out its chunks in order).                 *)
(***************************************************************************)
C2_ChunkingIndependent ==
    (Settled /\ ~fresh) =>
        /\ [result |-> result, header |-> header]
               = parseAllRun(OneByteChunks(StreamBytes))
        /\ [result |-> result, header |-> header]
               = parseAllRun(SingleChunk(StreamBytes))

(***************************************************************************)
(* C3: on a stream whose first 6 bytes are not "WPILOG", parseHeader never *)
(* goes past the magic (the cursor stays within the 6 magic bytes, no      *)
(* version or extra length is read, no Header is stored, no record is      *)
(* parsed), parseAll can only settle as rejected, and the parser never     *)
(* stops before it has settled.                                            *)
(***************************************************************************)
C3_BadMagicFails ==
    ~HasValidMagic =>
        /\ ~PastVersion
        /\ cursor <= 6
        /\ hdr.version = 0
        /\ header.null
        /\ rec.status = "none" /\ calls = 0
        /\ Settled => result.kind = "rejected"
        /\ ~Settled => ENABLED Next

\* a stream that starts with "WPILOX" was rejected for its magic
C3_Witness ==
    /\ SubSeq(StreamBytes, 1, 6) = BadMagic
    /\ result.kind = "rejected"
    /\ result.error = "InvalidMagic"
    /\ result.found = BadMagic
    /\ cursor = 6

C5_UnknownEntryFails ==
    (rec.status = "returned" /\ rec.entryId # 0)
        => \E k \in 1..Len(entries) :
               /\ entries[k].id = rec.entryId
               /\ entries[k].records # <<>>
               /\ entries[k].records[Len(entries[k].records)].rawPayload
                      = rec.payloadBytes

(***************************************************************************)
(* C6: what parseAll resolves with on a stream that holds a valid header,  *)
(* start(7, name, type, "") and set_metadata(7, m) is a WPILog in which    *)
(* entry 7 has metadata m and the id, name, type and (empty) records the   *)
(* start gave it, and there is no other entry.                             *)
(***************************************************************************)
C6_SetMetadataReplaces ==
    (Resolved /\ StreamBytes = ValidHeader(0) \o SetMetadataBody)
        => /\ result.kind = "WPILog"
           /\ entries = <<ExpectedEntry(7, Text(3), Text(1), Text(1), <<>>)>>

(***************************************************************************)
(* C7: when an awaited readToBuffer(n) has returned, at least n unread     *)
(* bytes lie in the buffer from the cursor on; and while it waits for one  *)
(* more chunk, fewer than n do.                                            *)
(***************************************************************************)
Unread == Len(buffer.bytes) - cursor

C7_FillUntilEnough ==
    /\ pc = "header_fixed" => Unread >= HEADER_MIN_SIZE
    /\ pc = "header_extra" => Unread >= hdr.extraLength
    /\ \A k \in 1..Len(inflight) :
           inflight[k].owner # "record" => Unread < inflight[k].length

(***************************************************************************)
(* C8: parseRecord never returns with a payload shorter than the payload   *)
(* size its framing declares: when the bytes have not accumulated, the     *)
(* parse fails instead.                                                    *)
(***************************************************************************)
C8_NoShortRecord ==
    rec.status = "returned" => Len(rec.payloadBytes) = rec.payloadSize

(***************************************************************************)
(* C9: once parseAll has settled on a well-formed stream (a valid header,  *)
(* then complete records, ending at a record boundary) it has resolved     *)
(* with a WPILog that holds the header, and the source is drained.         *)
(***************************************************************************)
C9_ParseAllCompletes ==
    (Settled /\ WellFormed)
        => /\ result.kind = "WPILog"
           /\ ~header.null
           /\ pos = Len(stream)

(***************************************************************************)
(* C10: when the header has been consumed, and when parseRecord has        *)
(* returned a record, the cursor is back at 0, the start of the retained   *)
(* bytes: the buffer holds no consumed byte.                               *)
(***************************************************************************)
C10_BufferCompacted ==
    /\ (pc \in {"header_parsed", "returned"} /\ calls = 0) => cursor = 0
    /\ rec.status = "returned" => cursor = 0

(***************************************************************************)
(* C11.  For every width n in 1..4 and every n bytes b0..b(n-1) at the     *)
(* cursor, readVariableLength(n) returns the sum of b_i * 256^i (little-   *)
(* endian, no sign extension) and advances the cursor by exactly n; for    *)
(* every width n in 1..8, readVariableLengthBigInt(n) returns the same sum *)
(* exactly and advances the cursor by exactly n.                           *)
(***************************************************************************)
RECURSIVE Pow256(_)
Pow256(i) == IF i = 0 THEN 1 ELSE 256 * Pow256(i - 1)

RECURSIVE ByteSum(_, _)
ByteSum(bytes, n) ==
    IF n = 0 THEN 0 ELSE ByteSum(bytes, n - 1) + bytes[n] * Pow256(n - 1)

\* the n bytes at the cursor the call started at
BytesAtStart(n) == SubSeq(reader.bytes, rec.start + 1, rec.start + n)

\* the sum of b_i * 256^i written in limbs of three bytes
ExactSum(bytes) ==
    LET n == Len(bytes)
        limb(k) == SubSeq(bytes, Min(3 * k - 2, n + 1), Min(3 * k, n))
    IN [k \in 1..3 |-> ByteSum(limb(k), Len(limb(k)))]

C11_VariableLengthExact ==
    /\ (/\ pc = "decoded_number"
        /\ rec.entryIdLength \in 1..4
        /\ rec.start + rec.entryIdLength <= Len(reader.bytes))
           => /\ rec.status = "returned"
              /\ rec.entryId >= 0
              /\ rec.entryId = ByteSum(BytesAtStart(rec.entryIdLength),
                                       rec.entryIdLength)
              /\ cursor = rec.start + rec.entryIdLength
    /\ (/\ pc = "decoded_bigint"
        /\ rec.timestampLength \in 1..8
        /\ rec.start + rec.timestampLength <= Len(reader.bytes))
           => /\ rec.status = "returned"
              /\ rec.timestamp = ExactSum(BytesAtStart(rec.timestampLength))
              /\ cursor = rec.start + rec.timestampLength

\* the three bytes 01 02 03 were read as 0x030201
C11_Witness ==
    /\ pc = "decoded_number"
    /\ rec.entryIdLength = 3
    /\ rec.start + 3 <= Len(reader.bytes)
    /\ BytesAtStart(3) = <<1, 2, 3>>
    /\ rec.entryId = 197121
    /\ cursor = 3

(***************************************************************************)
(* C12.  The three width selectors of the record bitfield are stored as    *)
(* byte-count-minus-one: a stored value w in bits 0-1, 2-3 and 4-6 means   *)
(* that the entry id, the payload size and the timestamp occupy w+1 bytes, *)
(* and parseRecord reads exactly those numbers of bytes for each field.    *)
(***************************************************************************)
\* the stored selectors of the bitfield byte parseRecord read
StoredWidths ==
    LET bits == rec.bitField[1]
    IN [entryId |-> bits % 4, payloadSize |-> (bits \div 4) % 4,
        timestamp |-> (bits \div 16) % 8]

C12_WidthsMinusOne ==
    (rec.status = "returned" /\ rec.bitField # <<>>)
        => /\ rec.sizeAt - rec.idAt = StoredWidths.entryId + 1
           /\ rec.timestampAt - rec.sizeAt = StoredWidths.payloadSize + 1
           /\ rec.payloadAt - rec.timestampAt = StoredWidths.timestamp + 1

(***************************************************************************)
(* C13.  Within one record the fields are decoded from contiguous bytes:   *)
(* the entry id starts at the byte immediately after the bitfield byte,    *)
(* the payload size immediately after the entry id, the timestamp          *)
(* immediately after the payload size and the payload immediately after    *)
(* the timestamp, so that parsing a record advances the read position by   *)
(* exactly 1 + entryIdLength + payloadSizeLength + timestampLength +       *)
(* payloadSize bytes.                                                      *)
(***************************************************************************)
C13_FieldsContiguous ==
    rec.status = "returned"
        => /\ rec.idAt = rec.start + 1
           /\ rec.sizeAt = rec.idAt + rec.entryIdLength
           /\ rec.timestampAt = rec.sizeAt + rec.payloadSizeLength
           /\ rec.payloadAt = rec.timestampAt + rec.timestampLength
           /\ rec.cursor = rec.start + 1 + rec.entryIdLength
                              + rec.payloadSizeLength + rec.timestampLength
                              + rec.payloadSize

(***************************************************************************)
(* C14.  The parser decodes a record's bitfield, its variable header and   *)
(* its payload only after the buffer fill requested for that part has      *)
(* completed: when parseRecord has decoded a record, none of the fills it  *)
(* requested is still in flight.                                           *)
(***************************************************************************)
RecordFillsInFlight == {k \in 1..Len(inflight) : inflight[k].owner = "record"}

C14_DecodeAfterFill ==
    rec.status = "returned" => RecordFillsInFlight = {}

(***************************************************************************)
(* C15.  When parseHeader succeeds, the read cursor designates exactly the *)
(* first byte after the header (offset 12 + extraLength of the stream),    *)
(* both when extraLength is 0 and when it is greater than 0, the returned  *)
(* Header has version 0x0100, and extra is the empty string when           *)
(* extraLength is 0 and the decoding of exactly the extraLength bytes      *)
(* following the fixed header otherwise.                                   *)
(***************************************************************************)
\* parseHeader has returned its Header (hdr) and no record was parsed since
HeaderJustParsed == pc \in {"header_parsed", "returned"} /\ calls = 0

\* the extra length field of the stream's header
WireExtraLength ==
    IF Len(StreamBytes) >= HEADER_MIN_SIZE
    THEN LittleEndian(SubSeq(StreamBytes, 9, HEADER_MIN_SIZE))
    ELSE 0

\* the bytes of the stream from offset `from` on, at most n of them
StreamFrom(from, n) ==
    SubSeq(StreamBytes, from + 1, Min(from + n, Len(StreamBytes)))

C15_CursorAfterHeader ==
    HeaderJustParsed
        => /\ Len(StreamBytes) >= HEADER_MIN_SIZE + WireExtraLength
           /\ hdr.version = SUPPORTED_VERSION
           /\ hdr.extra =
                  IF WireExtraLength = 0 THEN <<>>
                  ELSE decode(StreamFrom(HEADER_MIN_SIZE, WireExtraLength))
           /\ cursor <= Len(buffer.bytes)
           /\ SubSeq(buffer.bytes, cursor + 1, Len(buffer.bytes))
                  = StreamFrom(HEADER_MIN_SIZE + WireExtraLength, Unread)

(***************************************************************************)
(* C16.  A record whose bitfield gives a width of 0 for the entry id or    *)
(* for the payload size is rejected with an invalid-field-width error that *)
(* aborts the parse, while a timestamp width of 0 is accepted and decodes  *)
(* to timestamp 0 without reading any byte.                                *)
(***************************************************************************)
\* parseRecord has run and found a bitfield byte in the buffer
BitFieldRead == rec.status # "none" /\ rec.bitField # <<>>

C16_ZeroWidthRejected ==
    BitFieldRead
        => /\ (StoredWidths.entryId = 0 \/ StoredWidths.payloadSize = 0)
                  => /\ rec.status = "threw"
                     /\ rec.err = "InvalidVariableLength"
           /\ (/\ StoredWidths.entryId > 0
               /\ StoredWidths.payloadSize > 0
               /\ StoredWidths.timestamp = 0)
                  => /\ rec.err # "InvalidVariableLength"
                     /\ rec.status = "returned"
                            => /\ rec.timestamp = BigInt(0)
                               /\ rec.payloadAt = rec.timestampAt

(***************************************************************************)
(* C17.  For a record with entry id 0, the first payload byte selects the  *)
(* control subtype (0 = start, 1 = finish, 2 = set_metadata); any other    *)
(* tag value makes the parse fail with an unknown-control-type error and   *)
(* leaves the entry table unchanged.                                       *)
(***************************************************************************)
\* the control record types, by tag + 1
ControlTypes == <<"start", "finish", "set_metadata">>

\* parseRecord decoded entry id 0 and at least the first payload byte
ControlTagRead ==
    /\ rec.status # "none"
    /\ rec.control
    /\ rec.payloadBytes # <<>>

C17_ControlTagSelects ==
    ControlTagRead
        => LET tag == rec.payloadBytes[1]
           IN IF tag \in 0..2
              THEN rec.record = ControlTypes[tag + 1]
              ELSE /\ rec.status = "threw"
                   /\ rec.err = "UnknownControlType"
                   /\ entries = <<>>

(***************************************************************************)
(* C18.  In every reachable state of the parser, 0 <= cursor <= buffer     *)
(* length: no read operation advances the cursor past the end of the bytes *)
(* currently held in the buffer, and readBytes(n) always returns exactly n *)
(* bytes.                                                                  *)
(***************************************************************************)
C18_CursorWithinBuffer ==
    /\ buffer.def => (0 <= cursor /\ cursor <= Len(buffer.bytes))
    /\ rec.status # "none" /\ rec.err # "TypeError" => Len(rec.bitField) = 1
    /\ rec.status = "returned" => Len(rec.payloadBytes) = rec.payloadSize

(***************************************************************************)
(* C19.  Across any sequence of readToBuffer calls, the chunks appended to *)
(* the buffer are the source's chunks taken in source order, each exactly  *)
(* once: consumed-plus-buffered bytes always form a prefix of the source's *)
(* byte sequence, with no chunk skipped, duplicated or re-read from the    *)
(* start.                                                                  *)
(***************************************************************************)
\* the bytes sliceBuffer has dropped from the front of the buffer: the fixed
\* header, once parseHeader has returned a header without extra
Consumed ==
    IF pc \in {"header_parsed", "returned"} /\ hdr.extraLength = 0
    THEN HEADER_MIN_SIZE
    ELSE 0

C19_ChunksInSourceOrder ==
    buffer.def
        => /\ Consumed + Len(buffer.bytes) <= Len(StreamBytes)
           /\ buffer.bytes = StreamFrom(Consumed, Len(buffer.bytes))

====
